---- MODULE Spec2Model ----
(***************************************************************************)
(* Model of the Terabox download bot: the URL classifier                   *)
(* (TeraboxDownloader.is_valid_terabox_url), the link resolver             *)
(* (TeraboxDownloader.extract_file_info and its extraction strategies,     *)
(* get_direct_download_url) and the chat handlers that call them           *)
(* (TeraboxDownloadBot.handle_link, button_callback).                      *)
(*                                                                         *)
(* Python strings are sequences of one-character strings, so that          *)
(* endswith, lower, strip, unquote and urlparse are computed and not       *)
(* assumed.  Python integers are unbounded; a non-negative integer is the  *)
(* sequence of its decimal digits without leading zeros, so that sizes     *)
(* around 2^31 (MAX_FILE_SIZE = 2147483648) are exact.                     *)
(***************************************************************************)
EXTENDS Integers, Sequences, FiniteSets, TLC

VARIABLES
    cl_url,      \* classifier run: the candidate string
    cl_res,      \* classifier run: "pending", or the outcome of the call
    rs_in,       \* resolver run: the URL and the page the server holds for it
    rs_out,      \* resolver run: "pending", or the outcome of the call
    cookies,     \* the cookie jar of the downloader's requests.Session
    user_data,   \* context.user_data of the chat user: current_link, file_info
    keyboards,   \* the links whose "File Found" message still shows its buttons
    downloads,   \* user_stats[user]: downloads_today and total_downloads
    download_tasks, \* whether download_tasks holds a task of the user
    disk,        \* the links whose temporary file is in the download directory
    last,        \* what the most recent handler did and answered
    prev         \* the answer of the handle_link before the most recent one

\* ------------------------------------------------------------------------
\* Strings
\* ------------------------------------------------------------------------

LowerCase ==
    <<"a", "b", "c", "d", "e", "f", "g", "h", "i", "j", "k", "l", "m",
      "n", "o", "p", "q", "r", "s", "t", "u", "v", "w", "x", "y", "z">>

UpperCase ==
    <<"A", "B", "C", "D", "E", "F", "G", "H", "I", "J", "K", "L", "M",
      "N", "O", "P", "Q", "R", "S", "T", "U", "V", "W", "X", "Y", "Z">>

Digits ==
    <<"0", "1", "2", "3", "4", "5", "6", "7", "8", "9">>

Range(f) ==
    {f[i] : i \in DOMAIN f}

\* the lower-case letter of every upper-case letter
ToLower ==
    [c \in Range(UpperCase) |->
        LowerCase[CHOOSE i \in DOMAIN UpperCase : UpperCase[i] = c]]

\* str.lower() on one character
LowerChar(c) ==
    IF c \in DOMAIN ToLower THEN ToLower[c] ELSE c

\* str.lower()
Lower(s) ==
    [i \in 1..Len(s) |-> LowerChar(s[i])]

\* s.endswith(d)
EndsWith(s, d) ==
    /\ Len(d) <= Len(s)
    /\ SubSeq(s, Len(s) - Len(d) + 1, Len(s)) = d

\* s.startswith(d)
StartsWith(s, d) ==
    /\ Len(d) <= Len(s)
    /\ SubSeq(s, 1, Len(d)) = d

\* d in s  (substring test)
Contains(s, d) ==
    \E i \in 1..(Len(s) - Len(d) + 1) : SubSeq(s, i, i + Len(d) - 1) = d

\* index of the first character of s, at or after position from, that is in
\* the set cs; 0 when there is none
RECURSIVE FindFirst(_, _, _)
FindFirst(s, cs, from) ==
    IF from > Len(s) THEN 0
    ELSE IF s[from] \in cs THEN from
    ELSE FindFirst(s, cs, from + 1)

\* ------------------------------------------------------------------------
\* urllib.parse.urlparse, as far as is_valid_terabox_url uses it: the
\* netloc and the path of the split URL, or ValueError.
\* ------------------------------------------------------------------------

Letters ==
    Range(LowerCase) \cup Range(UpperCase)

SchemeChars ==
    Letters \cup Range(Digits) \cup {"+", "-", "."}

urlparse(url) ==
    LET colon    == FindFirst(url, {":"}, 1)
        isScheme == /\ colon > 1
                    /\ url[1] \in Letters
                    /\ \A k \in 1..(colon - 1) : url[k] \in SchemeChars
        rest     == IF isScheme THEN SubSeq(url, colon + 1, Len(url)) ELSE url
        hasNet   == StartsWith(rest, <<"/", "/">>)
        delim    == FindFirst(rest, {"/", "?", "#"}, 3)
        netloc   == IF ~hasNet THEN <<>>
                    ELSE IF delim = 0 THEN SubSeq(rest, 3, Len(rest))
                    ELSE SubSeq(rest, 3, delim - 1)
        after    == IF ~hasNet THEN rest
                    ELSE IF delim = 0 THEN <<>>
                    ELSE SubSeq(rest, delim, Len(rest))
        cut      == FindFirst(after, {"?", "#"}, 1)
        path     == IF cut = 0 THEN after ELSE SubSeq(after, 1, cut - 1)
        brackets == (FindFirst(netloc, {"["}, 1) > 0) #
                    (FindFirst(netloc, {"]"}, 1) > 0)
    IN  [raised |-> hasNet /\ brackets, netloc |-> netloc, path |-> path]

\* ------------------------------------------------------------------------
\* TeraboxDownloader.is_valid_terabox_url
\* ------------------------------------------------------------------------

valid_domains ==
    << <<"t", "e", "r", "a", "b", "o", "x", ".", "c", "o", "m">>,
       <<"w", "w", "w", ".", "t", "e", "r", "a", "b", "o", "x", ".", "c", "o", "m">>,
       <<"t", "e", "r", "a", "b", "o", "x", ".", "a", "p", "p">>,
       <<"d", "u", "b", "o", "x", ".", "c", "o", "m">>,
       <<"w", "w", "w", ".", "d", "u", "b", "o", "x", ".", "c", "o", "m">> >>

\* any(domain.endswith(d) for d in valid_domains)
DomainMatches(domain) ==
    \E i \in DOMAIN valid_domains : EndsWith(domain, valid_domains[i])

\* '/s/' in path or '/sharing/' in path
PathMatches(path) ==
    \/ Contains(path, <<"/", "s", "/">>)
    \/ Contains(path, <<"/", "s", "h", "a", "r", "i", "n", "g", "/">>)

\* What the body of the try block does: [raised, ret].
ValidBody(url) ==
    LET parsed == urlparse(url)
    IN  IF parsed.raised
        THEN [raised |-> TRUE, ret |-> FALSE]
        ELSE [raised |-> FALSE,
              ret    |-> /\ DomainMatches(Lower(parsed.netloc))
                         /\ PathMatches(parsed.path)]

\* The call as the caller sees it: the bare except turns every exception
\* of the body into the result False.
is_valid_terabox_url(url) ==
    LET body == ValidBody(url)
    IN  IF body.raised
        THEN [raised |-> FALSE, ret |-> FALSE]
        ELSE body

\* ------------------------------------------------------------------------
\* Python values held in JSON data and in the descriptor dictionaries.
\* t is the type: "absent" (the key is not in the dict), "none" (None /
\* JSON null), "str", "int", "other" (any JSON value without a strip
\* method that is not a number: a list, an object, a boolean); s holds the
\* characters of a str and the decimal digits (after an optional "-") of
\* an int.
\* ------------------------------------------------------------------------

Absent ==
    [t |-> "absent", s |-> <<>>]

NoneV ==
    [t |-> "none", s |-> <<>>]

OtherV ==
    [t |-> "other", s |-> <<>>]

StrV(s) ==
    [t |-> "str", s |-> s]

IntV(digits) ==
    [t |-> "int", s |-> digits]

Whitespace ==
    {" "}

RECURSIVE LStrip(_)
LStrip(s) ==
    IF s # <<>> /\ Head(s) \in Whitespace THEN LStrip(Tail(s)) ELSE s

RECURSIVE RStrip(_)
RStrip(s) ==
    IF s # <<>> /\ s[Len(s)] \in Whitespace
    THEN RStrip(SubSeq(s, 1, Len(s) - 1))
    ELSE s

\* str.strip()
Strip(s) ==
    RStrip(LStrip(s))

\* the percent escapes that occur in the inputs, and the character each
\* one decodes to
HexPairs ==
    { <<"4", "1">>, <<"2", "0">>, <<"2", "F">> }

HexDecode(pair) ==
    CASE pair = <<"4", "1">> -> "A"
      [] pair = <<"2", "0">> -> " "
      [] pair = <<"2", "F">> -> "/"

\* urllib.parse.unquote: every %XX escape becomes its character, anything
\* else is kept
RECURSIVE unquote(_)
unquote(s) ==
    IF s = <<>> THEN <<>>
    ELSE IF /\ Head(s) = "%"
            /\ Len(s) >= 3
            /\ <<s[2], s[3]>> \in HexPairs
         THEN <<HexDecode(<<s[2], s[3]>>)>> \o unquote(SubSeq(s, 4, Len(s)))
         ELSE <<Head(s)>> \o unquote(Tail(s))

IsDigits(s) ==
    /\ s # <<>>
    /\ \A i \in 1..Len(s) : s[i] \in Range(Digits)

\* whether int(s) succeeds: an optional sign and at least one digit
IsIntLiteral(s) ==
    \/ IsDigits(s)
    \/ Len(s) >= 2 /\ s[1] \in {"-", "+"} /\ IsDigits(Tail(s))

RECURSIVE DropZeros(_)
DropZeros(ds) ==
    IF Len(ds) > 1 /\ Head(ds) = "0" THEN DropZeros(Tail(ds)) ELSE ds

\* int(s) for a literal s: the digits without leading zeros, "-" kept for a
\* negative number
PyInt(s) ==
    IF s[1] \in {"-", "+"}
    THEN LET ds == DropZeros(Tail(s))
         IN  IF s[1] = "-" /\ ds # <<"0">> THEN <<"-">> \o ds ELSE ds
    ELSE DropZeros(s)

DigitVal(c) ==
    CHOOSE n \in 0..9 : Digits[n + 1] = c

\* a > b for two non-negative integers given by their digits
NatGT(a, b) ==
    \/ Len(a) > Len(b)
    \/ /\ Len(a) = Len(b)
       /\ \E k \in 1..Len(a) :
              /\ DigitVal(a[k]) > DigitVal(b[k])
              /\ \A j \in 1..(k - 1) : a[j] = b[j]

\* a > b for two integers given by their digits
IntGT(a, b) ==
    LET negA == Head(a) = "-"
        negB == Head(b) = "-"
    IN  IF negA /\ negB THEN NatGT(Tail(b), Tail(a))
        ELSE IF negA THEN FALSE
        ELSE IF negB THEN TRUE
        ELSE NatGT(a, b)

\* ------------------------------------------------------------------------
\* The descriptor dictionary (file_info) and the fetched markup.
\* ------------------------------------------------------------------------

InfoKeys ==
    {"filename", "size", "description", "direct_url", "url", "md5"}

\* the empty dict {}
EmptyInfo ==
    [k \in InfoKeys |-> Absent]

\* What a strategy or the resolver returns: None, or a dict.
NoneResult ==
    [isNone |-> TRUE, info |-> EmptyInfo]

Dict(info) ==
    [isNone |-> FALSE, info |-> info]

\* "info if info else None"
DictOrNone(info) ==
    IF info = EmptyInfo THEN NoneResult ELSE Dict(info)

\* truth value of a strategy's result ("if not file_info")
Truthy(r) ==
    ~r.isNone /\ r.info # EmptyInfo

\* ------------------------------------------------------------------------
\* TeraboxDownloader._extract_from_json_ld.  html.ld is the list of the
\* texts the JSON-LD pattern finds, each one as json.loads sees it:
\* kind "invalid" (JSONDecodeError), "notdict" (valid JSON, not an object)
\* or "dict" with its name, contentSize and description members.
\* ------------------------------------------------------------------------

\* x.strip() raises AttributeError unless x is a str
CanStrip(v) ==
    v.t = "str"

\* data.get(key, '')
GetOrEmpty(v) ==
    IF v.t = "absent" THEN StrV(<<>>) ELSE v

\* data.get('contentSize')
GetOrNone(v) ==
    IF v.t = "absent" THEN NoneV ELSE v

RECURSIVE JsonLdLoop(_)
JsonLdLoop(blocks) ==
    IF blocks = <<>> THEN NoneResult
    ELSE LET data == Head(blocks)
         IN  IF data.kind = "invalid" THEN JsonLdLoop(Tail(blocks))
             ELSE IF data.kind = "notdict" THEN JsonLdLoop(Tail(blocks))
             ELSE IF data.name.t = "absent" THEN JsonLdLoop(Tail(blocks))
             ELSE IF ~CanStrip(GetOrEmpty(data.name)) THEN NoneResult
             ELSE IF ~CanStrip(GetOrEmpty(data.description)) THEN NoneResult
             ELSE Dict([EmptyInfo EXCEPT
                     !.filename    = StrV(Strip(GetOrEmpty(data.name).s)),
                     !.size        = GetOrNone(data.contentSize),
                     !.description = StrV(Strip(GetOrEmpty(data.description).s))])

extract_from_json_ld(html) ==
    JsonLdLoop(html.ld)

\* ------------------------------------------------------------------------
\* TeraboxDownloader._extract_from_meta_tags.  html.og_title, html.meta_size
\* and html.meta_url are group(1) of the three searches (Absent: no match).
\* ------------------------------------------------------------------------

MetaFilename(html, info) ==
    IF html.og_title.t = "absent" THEN info
    ELSE [info EXCEPT !.filename = StrV(Strip(unquote(html.og_title.s)))]

MetaSize(html, info) ==
    IF html.meta_size.t = "absent" THEN info
    ELSE [info EXCEPT !.size = IntV(PyInt(html.meta_size.s))]

MetaUrl(html, info) ==
    IF html.meta_url.t = "absent" THEN info
    ELSE [info EXCEPT !.direct_url = html.meta_url]

extract_from_meta_tags(html) ==
    DictOrNone(MetaUrl(html, MetaSize(html, MetaFilename(html, EmptyInfo))))

\* ------------------------------------------------------------------------
\* TeraboxDownloader._extract_from_scripts.  html.file_name, html.file_size,
\* html.script_url and html.file_md5 are group(1) of the four searches; each
\* is stored as matched, a str, under the key of the patterns dict.
\* ------------------------------------------------------------------------

extract_from_scripts(html) ==
    DictOrNone([EmptyInfo EXCEPT
        !.filename = html.file_name,
        !.size     = html.file_size,
        !.url      = html.script_url,
        !.md5      = html.file_md5])

\* ------------------------------------------------------------------------
\* The requests.Session of the downloader.  A request carries the cookies
\* of the jar; a response that was received (any status) stores its
\* Set-Cookie in the jar.  A response is [status, cookie, ...]: status "ok",
\* "http_error" (raise_for_status raises) or "transport_error" (the request
\* itself raises); cookie is the set of cookies the response sets.
\* ------------------------------------------------------------------------

Received(resp) ==
    resp.status # "transport_error"

JarAfter(jar, resp) ==
    IF Received(resp) THEN jar \cup resp.cookie ELSE jar

\* ------------------------------------------------------------------------
\* TeraboxDownloader.extract_file_info
\* ------------------------------------------------------------------------

\* the URLs the resolver is called with
ShareUrls ==
    { <<"h", "t", "t", "p", "s", ":", "/", "/", "t", "e", "r", "a", "b", "o", "x", ".", "c", "o", "m", "/", "s", "/", "A", "b", "C", "1", "2", "3">>,
      <<"h", "t", "t", "p", "s", ":", "/", "/", "w", "w", "w", ".", "d", "u", "b", "o", "x", ".", "c", "o", "m", "/", "s", "/", "a", "%", "4", "1">>,
      <<"h", "t", "t", "p", "s", ":", "/", "/", "e", "v", "i", "l", "t", "e", "r", "a", "b", "o", "x", ".", "c", "o", "m", "/", "s", "/">>,
      <<"h", "t", "t", "p", "s", ":", "/", "/", "t", "e", "r", "a", "b", "o", "x", ".", "c", "o", "m", "/">> }

\* is_valid_terabox_url(url), line 42: computed once for the URLs above
ValidShareUrl ==
    [u \in ShareUrls |-> is_valid_terabox_url(u).ret]

Validated(url) ==
    IF url \in ShareUrls THEN ValidShareUrl[url]
    ELSE is_valid_terabox_url(url).ret

\* the cascade of strategies, in the order of the code
OrElse(file_info, next) ==
    IF ~Truthy(file_info) THEN next ELSE file_info

Cascade(html) ==
    OrElse(OrElse(extract_from_json_ld(html), extract_from_meta_tags(html)),
           extract_from_scripts(html))

\* f"terabox_file_{timestamp}"
PlaceholderName(now) ==
    <<"t", "e", "r", "a", "b", "o", "x", "_", "f", "i", "l", "e", "_">> \o now

\* "Generate filename if not found"
WithFilename(info, now) ==
    IF info.filename.t = "absent"
    THEN [info EXCEPT !.filename = StrV(PlaceholderName(now))]
    ELSE info

NeedsProbe_AnyDirectUrl(info) ==
    info.direct_url.t # "absent"

\* the condition under which the HEAD request is sent
NeedsProbe(info) ==
    info.size.t = "absent" /\ info.direct_url.t # "absent"

\* the body of the inner try: the Content-Length of a received response is
\* converted with int(); every exception is passed over
WithProbedSize(info, head) ==
    IF /\ Received(head)
       /\ head.content_length.t # "absent"
       /\ IsIntLiteral(head.content_length.s)
    THEN [info EXCEPT !.size = IntV(PyInt(head.content_length.s))]
    ELSE info

\* One call.  url: the argument; page: the answer to the GET of url; head:
\* the answer to the HEAD of the direct URL, were it sent; now:
\* int(time.time()); jar: the session's cookies at the call.
\* The result: ret, what is returned; exit, the line of the return
\* statement taken; found, what the cascade yielded; gets and heads, the
\* requests sent; sent, the cookies the page GET carried; jar, the
\* session's cookies after the call.
\* lines 58-78: a truthy file_info is completed and returned
Completed(found, named, head, jar, jar1) ==
    [ret   |-> Dict(IF NeedsProbe(named) THEN WithProbedSize(named, head)
                    ELSE named),
     exit  |-> 78,
     found |-> found,
     gets  |-> 1,
     heads |-> IF NeedsProbe(named) THEN 1 ELSE 0,
     sent  |-> jar,
     jar   |-> IF NeedsProbe(named) THEN JarAfter(jar1, head) ELSE jar1]

\* lines 58-80: what follows the cascade; jar1 is the jar after the GET
AfterCascade(found, head, now, jar, jar1) ==
    IF ~Truthy(found)
    THEN [ret |-> NoneResult, exit |-> 80, found |-> NoneResult,
          gets |-> 1, heads |-> 0, sent |-> jar, jar |-> jar1]
    ELSE Completed(found, WithFilename(found.info, now), head, jar, jar1)

extract_file_info(url, page, head, now, jar) ==
    IF ~Validated(url)
    THEN [ret |-> NoneResult, exit |-> 43, found |-> NoneResult,
          gets |-> 0, heads |-> 0, sent |-> {}, jar |-> jar]
    ELSE IF page.status # "ok"
    THEN [ret |-> NoneResult, exit |-> 84, found |-> NoneResult,
          gets |-> 1, heads |-> 0, sent |-> jar, jar |-> JarAfter(jar, page)]
    ELSE AfterCascade(Cascade(page.html), head, now, jar, JarAfter(jar, page))

\* ------------------------------------------------------------------------
\* TeraboxDownloader.get_direct_download_url.  resp2 is the answer to the
\* GET of line 188: its status and, per download pattern in the order of
\* the list, the text the pattern finds (Absent: no match).
\* ------------------------------------------------------------------------

\* "if match and ('http' in match or '//' in match)"
Plausible(v) ==
    /\ v.t = "str"
    /\ v.s # <<>>
    /\ \/ Contains(v.s, <<"h", "t", "t", "p">>)
       \/ Contains(v.s, <<"/", "/">>)

RECURSIVE FirstPlausible(_)
FirstPlausible(matches) ==
    IF matches = <<>> THEN Absent
    ELSE IF Plausible(Head(matches)) THEN Head(matches)
    ELSE FirstPlausible(Tail(matches))

\* The result: direct, the URL returned (Absent: None); the other fields as
\* for extract_file_info, counted over the whole call.
\* lines 184-205 for inner, the result of the call of line 183
DirectFrom(inner, hit, resp2) ==
    IF ~inner.ret.isNone /\ inner.ret.info.direct_url.t # "absent"
    THEN [inner EXCEPT !.exit = 185] @@ [direct |-> inner.ret.info.direct_url]
    ELSE IF ~Received(resp2)
    THEN [inner EXCEPT !.exit = 205, !.gets = @ + 1] @@ [direct |-> Absent]
    ELSE [inner EXCEPT !.exit = IF hit.t = "absent" THEN 201 ELSE 199,
                       !.gets = @ + 1,
                       !.jar  = JarAfter(@, resp2)] @@ [direct |-> hit]

get_direct_download_url(url, page, head, now, jar, resp2) ==
    DirectFrom(extract_file_info(url, page, head, now, jar),
               FirstPlausible(resp2.links), resp2)

\* ------------------------------------------------------------------------
\* Candidate strings
\* ------------------------------------------------------------------------

UrlPrefixes ==
    { <<>>,
      <<"/", "/">>,
      <<"h", "t", "t", "p", "s", ":", "/", "/">>,
      <<"H", "T", "T", "P", ":", "/", "/">> }

UrlHosts ==
    { <<>>,
      <<"t", "e", "r", "a", "b", "o", "x", ".", "c", "o", "m">>,
      <<"w", "w", "w", ".", "t", "e", "r", "a", "b", "o", "x", ".", "c", "o", "m">>,
      <<"t", "e", "r", "a", "b", "o", "x", ".", "a", "p", "p">>,
      <<"w", "w", "w", ".", "t", "e", "r", "a", "b", "o", "x", ".", "a", "p", "p">>,
      <<"d", "u", "b", "o", "x", ".", "c", "o", "m">>,
      <<"w", "w", "w", ".", "d", "u", "b", "o", "x", ".", "c", "o", "m">>,
      <<"T", "e", "r", "a", "B", "o", "x", ".", "C", "O", "M">>,
      <<"e", "v", "i", "l", "t", "e", "r", "a", "b", "o", "x", ".", "c", "o", "m">>,
      <<"n", "o", "t", "d", "u", "b", "o", "x", ".", "c", "o", "m">>,
      <<"c", "d", "n", ".", "t", "e", "r", "a", "b", "o", "x", ".", "c", "o", "m">>,
      <<"t", "e", "r", "a", "b", "o", "x", ".", "c", "o", "m", ":", "4", "4", "3">>,
      <<"e", "x", "a", "m", "p", "l", "e", ".", "c", "o", "m">>,
      <<"[", "t", "e", "r", "a", "b", "o", "x", ".", "c", "o", "m">> }

UrlPaths ==
    { <<>>,
      <<"/">>,
      <<"/", "s", "/">>,
      <<"/", "s", "/", "A", "b", "C", "1", "2", "3">>,
      <<"/", "s", "/", "a", "%", "4", "1">>,
      <<"/", "s", "h", "a", "r", "i", "n", "g", "/", "l", "i", "n", "k">>,
      <<"/", "h", "o", "m", "e", "?", "x", "=", "/", "s", "/", "1">>,
      <<"/", "f", "i", "l", "e", "#", "/", "s", "/", "1">> }

Urls ==
    { p \o h \o t : p \in UrlPrefixes, h \in UrlHosts, t \in UrlPaths }

\* ------------------------------------------------------------------------
\* Pages, responses and clock values of the resolver runs
\* ------------------------------------------------------------------------

NamedBlocks ==
    { [kind |-> "dict", name |-> n, contentSize |-> c, description |-> d] :
        n \in {StrV(<<>>), StrV(<<" ", "m">>), NoneV},
        c \in {Absent, IntV(<<"1", "0", "4", "8", "5", "7", "6", "0", "0">>), StrV(<<"3", "0", "0", "0", "0", "0", "0", "0", "0", "0">>)},
        d \in {Absent, StrV(<<"d">>), NoneV} }

SkippedBlocks ==
    { [kind |-> "invalid", name |-> Absent, contentSize |-> Absent,
       description |-> Absent],
      [kind |-> "notdict", name |-> Absent, contentSize |-> Absent,
       description |-> Absent],
      [kind |-> "dict", name |-> Absent, contentSize |-> IntV(<<"7">>),
       description |-> Absent] }

\* a block that is skipped, one whose strip raises, one that is returned
PairBlocks ==
    SkippedBlocks \cup
    { [kind |-> "dict", name |-> NoneV, contentSize |-> Absent,
       description |-> Absent],
      [kind |-> "dict", name |-> StrV(<<"n">>), contentSize |-> Absent,
       description |-> Absent] }

LdLists ==
    {<<>>} \cup { <<b>> : b \in NamedBlocks \cup SkippedBlocks }
           \cup { <<a, b>> : a \in PairBlocks, b \in PairBlocks }

Htmls ==
    [ ld         : LdLists,
      og_title   : {Absent, StrV(<<"%", "4", "1", " ">>)},
      meta_size  : {Absent, StrV(<<"0", "1", "0", "4">>)},
      meta_url   : {Absent, StrV(<<"h", "t", "t", "p", ":", "/", "/", "d">>)},
      file_name  : {Absent, StrV(<<"f">>)},
      file_size  : {Absent, StrV(<<"3", "0", "0", "0", "0", "0", "0", "0", "0", "0">>)},
      script_url : {Absent, StrV(<<"h", "t", "t", "p", ":", "/", "/", "s">>)},
      file_md5   : {Absent, StrV(<<"a", "b">>)} ]

EmptyHtml ==
    [ld |-> <<>>, og_title |-> Absent, meta_size |-> Absent,
     meta_url |-> Absent, file_name |-> Absent, file_size |-> Absent,
     script_url |-> Absent, file_md5 |-> Absent]

\* what the server answers to the GET of a share URL
Pages ==
    { [status |-> "ok", cookie |-> {}, html |-> h] : h \in Htmls } \cup
    { [status |-> st, cookie |-> {}, html |-> EmptyHtml] :
        st \in {"http_error", "transport_error"} }

\* what the file server answers to the HEAD of a direct URL
HeadResponses ==
    { [status |-> "transport_error", cookie |-> {}, content_length |-> Absent] }
    \cup
    { [status |-> "ok", cookie |-> {}, content_length |-> c] :
        c \in {Absent, StrV(<<"0", "1", "0", "4", "8", "5", "7", "6">>), StrV(<<"a", "b", "c">>)} }

\* what the server answers to the GET of get_direct_download_url
FallbackResponses ==
    { [status |-> "transport_error", cookie |-> {}, links |-> <<>>] } \cup
    { [status |-> "http_error", cookie |-> {},
       links |-> <<Absent, Absent, Absent>>] } \cup
    { [status |-> "ok", cookie |-> {}, links |-> <<href, dl, loc>>] :
        href \in {Absent, StrV(<<"h", "t", "t", "p", ":", "/", "/", "m", ".", "m", "p", "4">>)},
        dl   \in {Absent, StrV(<<"d", "l">>)},
        loc  \in {Absent, StrV(<<"/", "/", "r">>)} }

Clock ==
    { <<"1", "7", "0", "0", "0", "0", "0", "0", "0", "0">>, <<"1", "7", "0", "0", "0", "0", "0", "0", "0", "1">> }

\* the hosts the classifier is specified to accept: an allow-listed domain,
\* bare or prefixed with "www."
ShareDomains ==
    { <<"t", "e", "r", "a", "b", "o", "x", ".", "c", "o", "m">>,
      <<"t", "e", "r", "a", "b", "o", "x", ".", "a", "p", "p">>,
      <<"d", "u", "b", "o", "x", ".", "c", "o", "m">> }

AllowedHosts ==
    ShareDomains \cup { <<"w", "w", "w", ".">> \o d : d \in ShareDomains }

HostAllowed(url) ==
    /\ ~urlparse(url).raised
    /\ Lower(urlparse(url).netloc) \in AllowedHosts

\* ------------------------------------------------------------------------
\* Classifier runs: one candidate at a time is classified.
\* ------------------------------------------------------------------------

vars ==
    <<cl_url, cl_res, rs_in, rs_out, cookies, user_data, keyboards, downloads,
      download_tasks, disk, last, prev>>

bot_vars ==
    <<user_data, keyboards, downloads, download_tasks, disk, last, prev>>

\* the outcome of a resolver call that has not been made
Pending ==
    [op |-> "pending", ret |-> NoneResult, exit |-> 0, found |-> NoneResult,
     gets |-> 0, heads |-> 0, sent |-> {}, jar |-> {}, direct |-> Absent]

\* the parts of the state a specification does not use stay as they are here
ClassifierIdle ==
    /\ cl_url = <<>>
    /\ cl_res = [state |-> "idle", raised |-> FALSE, ret |-> FALSE]

ResolverIdle ==
    /\ rs_in = [url |-> <<>>, page |-> [status |-> "ok", cookie |-> {},
                                         html |-> EmptyHtml]]
    /\ rs_out = Pending

\* no link analysed: user_data is empty
NoUserData ==
    [current_link |-> Absent, file_info |-> NoneResult]

NoAnswer ==
    [op |-> "none", msg |-> "none", exit |-> 0, fetch |-> "none",
     size |-> Absent, sent |-> {}, link |-> <<>>, target |-> <<>>]

\* what is kept of the answer before the last one
NoReply ==
    [msg |-> "none", exit |-> 0, fetch |-> "none"]

\* TeraboxDownloadBot.__init__, and a chat in which nothing was sent yet
BotIdle ==
    /\ user_data = NoUserData
    /\ keyboards = {}
    /\ downloads = 0
    /\ download_tasks = FALSE
    /\ disk = {}
    /\ last = NoAnswer
    /\ prev = NoReply

ClassifierInit ==
    /\ cl_url \in Urls
    /\ cl_res = [state |-> "pending", raised |-> FALSE, ret |-> FALSE]
    /\ ResolverIdle
    /\ BotIdle
    /\ cookies = {}

Classify ==
    /\ cl_res.state = "pending"
    /\ cl_res' = [state |-> "done"] @@ is_valid_terabox_url(cl_url)
    /\ UNCHANGED <<cl_url, rs_in, rs_out, cookies, bot_vars>>

NextCandidate ==
    /\ cl_res.state = "done"
    /\ cl_url' \in Urls
    /\ cl_res' = [state |-> "pending", raised |-> FALSE, ret |-> FALSE]
    /\ UNCHANGED <<rs_in, rs_out, cookies, bot_vars>>

ClassifierNext ==
    \/ Classify
    \/ NextCandidate

SpecClassifier ==
    ClassifierInit /\ [][ClassifierNext]_vars

\* ------------------------------------------------------------------------
\* Resolver runs: one call of extract_file_info or of
\* get_direct_download_url on a freshly constructed downloader.
\* ------------------------------------------------------------------------

ResolverInit ==
    /\ ClassifierIdle
    /\ BotIdle
    /\ rs_in \in [url : ShareUrls, page : Pages]
    /\ rs_out = Pending
    /\ cookies = {}

ExtractFileInfo ==
    /\ rs_out.op = "pending"
    /\ \E head \in HeadResponses, now \in Clock :
         LET out == extract_file_info(rs_in.url, rs_in.page, head, now, cookies)
         IN  /\ rs_out' = out @@ [op |-> "extract_file_info", direct |-> Absent]
             /\ cookies' = out.jar
    /\ UNCHANGED <<cl_url, cl_res, rs_in, bot_vars>>

ResolverNext ==
    ExtractFileInfo

SpecResolver ==
    ResolverInit /\ [][ResolverNext]_vars

\* ------------------------------------------------------------------------
\* Direct-URL runs: one call of get_direct_download_url on a freshly
\* constructed downloader.
\* ------------------------------------------------------------------------

\* pages on which each strategy finds nothing, a name only, or a URL
DirectHtmls ==
    { h \in Htmls :
        /\ h.ld \in {<<>>} \cup { <<b>> : b \in PairBlocks }
        /\ h.meta_size = Absent
        /\ h.file_size = Absent
        /\ h.file_md5 = Absent }

DirectPages ==
    { p \in Pages : p.html \in DirectHtmls }

DirectInit ==
    /\ ClassifierIdle
    /\ BotIdle
    /\ rs_in \in [url : ShareUrls, page : DirectPages]
    /\ rs_out = Pending
    /\ cookies = {}

GetDirectDownloadUrl ==
    /\ rs_out.op = "pending"
    /\ \E head \in HeadResponses, now \in Clock, resp2 \in FallbackResponses :
         LET out == get_direct_download_url(rs_in.url, rs_in.page, head, now,
                                            cookies, resp2)
         IN  /\ rs_out' = out @@ [op |-> "get_direct_download_url"]
             /\ cookies' = out.jar
    /\ UNCHANGED <<cl_url, cl_res, rs_in, bot_vars>>

DirectNext ==
    GetDirectDownloadUrl

SpecDirect ==
    DirectInit /\ [][DirectNext]_vars

\* C1: is_valid_terabox_url accepts a URL only if its lower-cased host is an
\* allow-listed domain or that domain prefixed with "www."; a host that
\* merely ends with an allow-listed domain is rejected.
C1_AcceptsOnlyAllowedHosts ==
    (cl_res.state = "done" /\ cl_res.ret) => HostAllowed(cl_url)

\* C2: every candidate whose host is not allow-listed or whose path has no
\* share marker is answered False, and no call raises to the caller.
C2_RejectsEverythingElse ==
    cl_res.state = "done" =>
        /\ ~cl_res.raised
        /\ (~HostAllowed(cl_url) \/ ~PathMatches(urlparse(cl_url).path))
               => ~cl_res.ret

\* ------------------------------------------------------------------------
\* TeraboxDownloadBot: the handlers of one chat user.  The application
\* handles one update at a time, so a handler runs from its first line to
\* its last as one step.  The calls to the chat platform succeed, except
\* the failure notice of start_download, which may raise (Notices).
\* ------------------------------------------------------------------------

\* config.MAX_FILE_SIZE, 2147483648
MAX_FILE_SIZE ==
    <<"2", "1", "4", "7", "4", "8", "3", "6", "4", "8">>

\* how many downloads the user starts in a run
MaxDownloads ==
    2

\* message texts the user sends
BotTexts ==
    { <<" ", "h", "t", "t", "p", "s", ":", "/", "/", "t", "e", "r", "a", "b", "o", "x", ".", "c", "o", "m", "/", "s", "/", "A", "b", "C", "1", "2", "3">>,
      <<"h", "t", "t", "p", "s", ":", "/", "/", "w", "w", "w", ".", "d", "u", "b", "o", "x", ".", "c", "o", "m", "/", "s", "/", "a", "%", "4", "1">>,
      <<"h", "t", "t", "p", "s", ":", "/", "/", "t", "e", "r", "a", "b", "o", "x", ".", "c", "o", "m", "/">> }

BotHtmls ==
    { EmptyHtml,
      [EmptyHtml EXCEPT !.ld = << [kind |-> "dict", name |-> StrV(<<"n">>),
                                   contentSize |-> IntV(<<"3", "0", "0", "0", "0", "0", "0", "0", "0", "0">>),
                                   description |-> Absent] >>],
      [EmptyHtml EXCEPT !.ld = << [kind |-> "dict", name |-> StrV(<<"n">>),
                                   contentSize |-> StrV(<<"3", "0", "0", "0", "0", "0", "0", "0", "0", "0">>),
                                   description |-> Absent] >>],
      [EmptyHtml EXCEPT !.file_name = StrV(<<"f">>), !.file_size = StrV(<<"3", "0", "0", "0", "0", "0", "0", "0", "0", "0">>)],
      [EmptyHtml EXCEPT !.og_title = StrV(<<"%", "4", "1", " ">>), !.meta_url = StrV(<<"h", "t", "t", "p", ":", "/", "/", "d">>)] }

BotPages ==
    { [status |-> "ok", cookie |-> {}, html |-> h] : h \in BotHtmls } \cup
    { [status |-> "ok", cookie |-> {"sid"},
       html |-> [EmptyHtml EXCEPT
                   !.ld = << [kind |-> "dict", name |-> StrV(<<"n">>),
                              contentSize |-> IntV(<<"1", "0", "4", "8", "5", "7", "6", "0", "0">>),
                              description |-> Absent] >>]] } \cup
    { [status |-> st, cookie |-> {}, html |-> EmptyHtml] :
        st \in {"http_error", "transport_error"} }

BotHeadResponses ==
    { [status |-> "ok", cookie |-> {}, content_length |-> c] :
        c \in {StrV(<<"0", "1", "0", "4", "8", "5", "7", "6">>), StrV(<<"3", "0", "0", "0", "0", "0", "0", "0", "0", "0">>)} }

BotFallbackResponses ==
    { [status |-> "transport_error", cookie |-> {}, links |-> <<>>],
      [status |-> "ok", cookie |-> {}, links |-> <<Absent, Absent, Absent>>],
      [status |-> "ok", cookie |-> {},
       links |-> <<StrV(<<"h", "t", "t", "p", ":", "/", "/", "m", ".", "m", "p", "4">>), Absent, Absent>>] }

\* how the streamed GET of download_file ends: a status other than 200, an
\* exception while chunks are written, or the last chunk
StreamEnds ==
    {"not_200", "broken", "complete"}

\* file_info.get('size', 0) > MAX_FILE_SIZE: "raises" (TypeError) when the
\* size is not a number
SizeCheck(info) ==
    LET file_size == IF info.size.t = "absent" THEN IntV(<<"0">>) ELSE info.size
    IN  IF file_size.t # "int" THEN "raises"
        ELSE IF IntGT(file_size.s, MAX_FILE_SIZE) THEN "too_large"
        ELSE "ok"

\* an answer of handle_link given before the resolver is called
Early(msg, line, link) ==
    [NoAnswer EXCEPT !.op = "handle_link", !.msg = msg, !.exit = line,
                     !.link = link]

\* an answer of handle_link to the result out of the resolver
Said(msg, out, page, link) ==
    [op |-> "handle_link", msg |-> msg, exit |-> out.exit,
     fetch |-> page.status, size |-> out.ret.info.size, sent |-> out.sent,
     link |-> link, target |-> <<>>]

\* handle_link from line 194 on: out is the result of extract_file_info and
\* check that of the size check
Answer(link, page, out, check) ==
    /\ cookies' = out.jar
    /\ IF out.ret.isNone
       THEN /\ last' = Said("unable_to_process", out, page, link)
            /\ UNCHANGED <<user_data, keyboards>>
       ELSE CASE check = "raises" ->
                   /\ last' = Said("error_processing", out, page, link)
                   /\ UNCHANGED <<user_data, keyboards>>
              [] check = "too_large" ->
                   /\ last' = Said("file_too_large", out, page, link)
                   /\ UNCHANGED <<user_data, keyboards>>
              [] check = "ok" ->
                   /\ last' = Said("file_found", out, page, link)
                   /\ user_data' = [current_link |-> StrV(link),
                                    file_info    |-> out.ret]
                   /\ keyboards' = keyboards \cup {link}

\* the size check of the result out
Checked(link, page, out) ==
    Answer(link, page, out, SizeCheck(out.ret.info))

\* handle_link for the stripped text link; limited is what the call of
\* is_rate_limited answered
Handled(link, limited, page, head, now) ==
    IF limited
    THEN /\ last' = Early("rate_limited", 168, link)
         /\ UNCHANGED <<cookies, user_data, keyboards>>
    ELSE IF ~Validated(link)
    THEN /\ last' = Early("invalid_link", 181, link)
         /\ UNCHANGED <<cookies, user_data, keyboards>>
    ELSE Checked(link, page, extract_file_info(link, page, head, now, cookies))

\* TeraboxDownloadBot.handle_link without the bookkeeping of prev
HandleLinkStep(text, limited, page, head, now) ==
    Handled(Strip(text), limited, page, head, now)

HandleLink ==
    /\ \E text \in BotTexts, limited \in BOOLEAN, page \in BotPages,
          head \in BotHeadResponses, now \in Clock :
         HandleLinkStep(text, limited, page, head, now)
    /\ UNCHANGED <<cl_url, cl_res, rs_in, rs_out, downloads, download_tasks,
                   disk, prev>>

\* TeraboxDownloadBot.download_file from line 397 on: out is the result of
\* get_direct_download_url
Streamed(url, out, stream) ==
    [success |-> stream = "complete",
     target  |-> IF out.direct.t = "absent" THEN url ELSE out.direct.s,
     created |-> stream # "not_200",
     out     |-> out]

\* TeraboxDownloadBot.download_file: [success, target, created, out]
download_file(url, page, head, now, resp2, stream) ==
    Streamed(url, get_direct_download_url(url, page, head, now, cookies, resp2),
             stream)

\* how the edit_message_text of lines 362-371 ends, which tells the user
\* that the download failed
Notices ==
    {"sent", "raises"}

\* TeraboxDownloadBot.start_download for dl, the result of download_file.
\* The cleanup of lines 373-381 removes the file and the task; when the
\* failure notice raises, the except of line 383 is entered instead and the
\* cleanup is not reached.
Downloaded(url, page, dl, notice) ==
    /\ downloads' = downloads + 1
    /\ cookies' = dl.out.jar
    /\ disk' = IF ~dl.success /\ notice = "raises"
               THEN (IF dl.created THEN disk \cup {url} ELSE disk)
               ELSE disk \ {url}
    /\ download_tasks' = (~dl.success /\ notice = "raises")
    /\ last' = [op |-> "download",
                msg |-> IF dl.success THEN "file_sent"
                        ELSE IF notice = "raises" THEN "download_error"
                        ELSE "download_failed",
                exit |-> dl.out.exit, fetch |-> page.status,
                size |-> Absent, sent |-> dl.out.sent,
                link |-> url, target |-> dl.target]

\* TeraboxDownloadBot.start_download
start_download(url, page, head, now, resp2, stream, notice) ==
    Downloaded(url, page, download_file(url, page, head, now, resp2, stream),
               notice)

\* TeraboxDownloadBot.button_callback, data "download_...": the Download
\* button under the message of link pressed
PressDownload ==
    /\ \E pressed \in keyboards :
         /\ keyboards' = keyboards \ {pressed}
         /\ IF user_data.current_link.t = "absent" \/ user_data.file_info.isNone
            THEN /\ last' = [NoAnswer EXCEPT !.op = "download",
                                             !.msg = "session_expired"]
                 /\ UNCHANGED <<cookies, downloads, download_tasks, disk>>
            ELSE /\ downloads < MaxDownloads
                 /\ \E page \in BotPages, head \in BotHeadResponses,
                       now \in Clock, resp2 \in BotFallbackResponses,
                       stream \in StreamEnds, notice \in Notices :
                      start_download(user_data.current_link.s, page, head, now,
                                     resp2, stream, notice)
    /\ UNCHANGED <<cl_url, cl_res, rs_in, rs_out, user_data, prev>>

\* TeraboxDownloadBot.button_callback, data "cancel": the del of a key that
\* user_data does not hold raises KeyError (exit 285)
PressCancel ==
    /\ \E pressed \in keyboards :
         /\ keyboards' = keyboards \ {pressed}
         /\ last' = [NoAnswer EXCEPT
                       !.op = "cancel", !.msg = "download_cancelled",
                       !.exit = IF user_data.current_link.t = "absent"
                                THEN 285 ELSE 0]
    /\ user_data' = NoUserData
    /\ UNCHANGED <<cl_url, cl_res, rs_in, rs_out, cookies, downloads,
                   download_tasks, disk, prev>>

Init ==
    /\ ClassifierIdle
    /\ ResolverIdle
    /\ BotIdle
    /\ cookies = {}

Next ==
    \/ HandleLink
    \/ PressDownload
    \/ PressCancel

Spec ==
    Init /\ [][Next]_vars

\* the same handler, with the answer it replaces remembered in prev
HandleLinkLogged ==
    /\ \E text \in BotTexts, limited \in BOOLEAN, page \in BotPages,
          head \in BotHeadResponses, now \in Clock :
         HandleLinkStep(text, limited, page, head, now)
    /\ prev' = [msg |-> last.msg, exit |-> last.exit, fetch |-> last.fetch]
    /\ UNCHANGED <<cl_url, cl_res, rs_in, rs_out, downloads, download_tasks,
                   disk>>

RepliesNext ==
    HandleLinkLogged

SpecReplies ==
    Init /\ [][RepliesNext]_vars

\* a descriptor field that carries nothing: no key, None, or the empty string
FieldEmpty(v) ==
    \/ v.t \in {"absent", "none"}
    \/ v.t = "str" /\ v.s = <<>>

Returned ==
    rs_out.op = "extract_file_info" /\ ~rs_out.ret.isNone

\* C3: extract_file_info never returns a descriptor in which every field is
\* empty; when the cascade produced no usable value the call returns None.
C3_NeverAllFieldsEmpty ==
    (Returned /\ HostAllowed(rs_in.url))
    => \E k \in InfoKeys : ~FieldEmpty(rs_out.ret.info[k])

\* the names of the JSON-LD blocks of a page that parse to an object with a
\* 'name' string
LdNames(html) ==
    { Strip(html.ld[i].name.s) :
        i \in { j \in DOMAIN html.ld : /\ html.ld[j].kind = "dict"
                                        /\ html.ld[j].name.t = "str" } }

\* C4: when the markup holds a parseable JSON-LD block with a name and an
\* og:title tag with another value, the returned filename is the JSON-LD
\* name and the og:title is not used.
C4_StructuredDataNameWins ==
    LET html == rs_in.page.html
    IN  ( /\ Returned
          /\ HostAllowed(rs_in.url)
          /\ LdNames(html) # {}
          /\ html.og_title.t = "str"
          /\ Strip(unquote(html.og_title.s)) \notin LdNames(html) )
        => /\ rs_out.ret.info.filename.t = "str"
           /\ rs_out.ret.info.filename.s \in LdNames(html)

\* the last segment of the path of a URL, percent-decoded
RECURSIVE AfterLastSlash(_)
AfterLastSlash(path) ==
    LET i == FindFirst(path, {"/"}, 1)
    IN  IF i = 0 THEN path ELSE AfterLastSlash(SubSeq(path, i + 1, Len(path)))

LastSegment(url) ==
    unquote(AfterLastSlash(urlparse(url).path))

\* C5: when a descriptor is returned and no strategy yielded a filename, the
\* filename is the percent-decoded last path segment of the URL, the
\* timestamp placeholder only when the URL has no such segment, and it is
\* never absent.
C5_FilenameFromPathSegment ==
    ( /\ Returned
      /\ HostAllowed(rs_in.url)
      /\ rs_out.found.info.filename.t = "absent" )
    => /\ rs_out.ret.info.filename.t = "str"
       /\ IF LastSegment(rs_in.url) # <<>>
          THEN rs_out.ret.info.filename.s = LastSegment(rs_in.url)
          ELSE \E now \in Clock :
                   rs_out.ret.info.filename.s = PlaceholderName(now)

\* C6: the HEAD probe is sent only when the descriptor holds a direct URL
\* and no size; when a strategy extracted a size, no probe is sent and the
\* size is returned as extracted.
C6_ProbeOnlyWithoutSize ==
    rs_out.op = "extract_file_info" =>
        /\ rs_out.heads > 0 =>
               /\ rs_out.found.info.direct_url.t # "absent"
               /\ rs_out.found.info.size.t = "absent"
        /\ (Truthy(rs_out.found) /\ rs_out.found.info.size.t # "absent") =>
               /\ rs_out.heads = 0
               /\ rs_out.ret.info.size = rs_out.found.info.size

\* a call whose page yields both a size and a direct URL
C6_Witness ==
    /\ Returned
    /\ rs_out.found.info.size.t = "int"
    /\ rs_out.found.info.direct_url.t = "str"
    /\ rs_out.heads = 0
    /\ rs_out.ret.info.size = rs_out.found.info.size

\* C9: a call of extract_file_info or of get_direct_download_url sends at
\* most one GET of the share page, and none after a GET that failed.
C9_SharePageFetchedOnce ==
    rs_out.op # "pending" => rs_out.gets <= 1

\* a size as a number can be read from it: an int, or a string of digits
SizeExceeds(v, limit) ==
    \/ v.t = "int" /\ IntGT(v.s, limit)
    \/ v.t = "str" /\ IsIntLiteral(v.s) /\ IntGT(PyInt(v.s), limit)

\* C7: when the descriptor resolved for a link carries a size above
\* MAX_FILE_SIZE, in whichever form a strategy produced it, handle_link
\* answers "file too large", and the descriptor is never the one a Download
\* button starts a transfer for.
C7_OversizeNeverTransferred ==
    /\ ( /\ last.op = "handle_link"
         /\ last.exit = 78
         /\ SizeExceeds(last.size, MAX_FILE_SIZE) )
       => last.msg = "file_too_large"
    /\ ~user_data.file_info.isNone
       => ~SizeExceeds(user_data.file_info.info.size, MAX_FILE_SIZE)

\* which of the three failures an answer of handle_link reports
FailureKind(r) ==
    IF r.exit = 181 THEN "InvalidLink"
    ELSE IF r.fetch \in {"http_error", "transport_error"} THEN "FetchFailed"
    ELSE IF r.fetch = "ok" /\ r.exit \in {80, 84} THEN "NoDataExtracted"
    ELSE "none"

\* C8: an invalid link, a failed fetch and a page without extractable data
\* are answered with three different messages.
C8_FailureKindsDistinguished ==
    ( /\ FailureKind(prev) # "none"
      /\ FailureKind(last) # "none"
      /\ FailureKind(prev) # FailureKind(last) )
    => prev.msg # last.msg

\* C10: no call of the resolver reads state an earlier call left: the
\* requests of a call carry no cookie that the response to another call set.
C10_CallsShareNoState ==
    last.op \in {"handle_link", "download"} => last.sent = {}

\* C11: when start_download has finished, the temporary file of the link
\* it downloaded is not on disk, however the transfer and the steps after
\* it ended.
C11_NoPartialFileLeft ==
    last.op = "download" => last.link \notin disk

\* the answers that tell of a transfer that start_download made
TransferAnswers ==
    {"file_sent", "download_failed", "download_error"}

\* C12: download_file streams only from a direct-download URL that the
\* resolution found; without one no transfer is made and the share page is
\* never fetched as the file.
C12_StreamOnlyFromDirectUrl ==
    (last.op = "download" /\ last.msg \in TransferAnswers)
    => last.target # last.link

\* C13: in every descriptor extract_file_info returns, a size that is
\* present is a non-negative integer, never a string, None or another type.
C13_SizeIsNonNegativeInt ==
    ( /\ Returned
      /\ HostAllowed(rs_in.url)
      /\ rs_out.ret.info.size.t # "absent" )
    => /\ rs_out.ret.info.size.t = "int"
       /\ Head(rs_out.ret.info.size.s) # "-"

\* C14: the cascade tries structured data, then the script strategy, then
\* the metadata tags: for markup without a structured-data block in which
\* both the script and the metadata-tag strategy yield a result, what the
\* cascade yields is the result of the script strategy.
C14_ScriptsBeforeMetaTags ==
    ( /\ rs_out.op = "extract_file_info"
      /\ HostAllowed(rs_in.url)
      /\ rs_out.gets = 1
      /\ rs_in.page.status = "ok"
      /\ rs_in.page.html.ld = <<>>
      /\ Truthy(extract_from_scripts(rs_in.page.html))
      /\ Truthy(extract_from_meta_tags(rs_in.page.html)) )
    => rs_out.found = extract_from_scripts(rs_in.page.html)

\* C15: whenever a strategy found a direct-download URL (the script
\* strategy's downloadUrl / file_url included) and no size, the HEAD probe
\* is sent, and the descriptor is returned whatever the probe answers.
C15_ProbeForEveryFoundUrl ==
    ( /\ rs_out.op = "extract_file_info"
      /\ HostAllowed(rs_in.url)
      /\ Truthy(rs_out.found)
      /\ \/ rs_out.found.info.direct_url.t # "absent"
         \/ rs_out.found.info.url.t # "absent"
      /\ rs_out.found.info.size.t = "absent" )
    => /\ rs_out.heads = 1
       /\ ~rs_out.ret.isNone

\* C16: a press of the Download button under the message of link L starts
\* the download of L: the link downloaded is the one whose keyboard was
\* pressed (a press takes the keyboard away).
C16_DownloadsThePressedLink ==
    [][ (last'.op = "download" /\ downloads' = downloads + 1)
        => keyboards \ keyboards' = {last'.link} ]_vars

====
